---- MODULE Spec2Model ----
(***************************************************************************)
(* Goldilocks field arithmetic (src/src/field/goldilocks_field.rs) and the *)
(* compression / decompression of FRI proofs                               *)
(* (src/plonky2/src/fri/proof.rs).                                         *)
(*                                                                         *)
(* A u64 is a tuple of 8 bytes and a u128 a tuple of 16 bytes, least       *)
(* significant byte first, so that every 64-bit and 128-bit operation of   *)
(* the source is computed at its full width.                               *)
(***************************************************************************)
EXTENDS Integers, Sequences, FiniteSets, TLC

VARIABLES
    \* ---- field operations
    overflow_checks,  \* the build panics on integer overflow (dev/test profile)
    x, y,             \* operands: the u64 held by two GoldilocksField values
    fpc,              \* "idle" | "loop" (inside try_inverse) | "done"
    op,               \* the operation that ran
    out,              \* its outcome: [kind: "value" | "none" | "panic", val, why]
    inv_u, inv_v, inv_b, inv_c,  \* the accumulators of try_inverse
    \* ---- FRI proof compression
    params,           \* FriParams: cap_height, rate_bits, degree_bits, reduction_arity_bits
    indices,          \* the query indices the proof was generated with
    proof,            \* the FriProof handed to compress
    pc,               \* "start" | "compressed" | "decompressed" | "compress_panicked"
    compressed,       \* the CompressedFriProof handed to decompress
    fri_query_indices,      \* challenges.fri_challenges.fri_query_indices
    fri_inferred_elements,  \* FriInferredElements handed to decompress
    tampered,         \* the compressed proof or the inferred elements are not compress's
    first_key,        \* the key initial_trees_proofs.values().next() came from
    result            \* decompress's outcome: [kind: "ok" | "panic", why, proof]

fieldVars == <<overflow_checks, x, y, fpc, op, out, inv_u, inv_v, inv_b, inv_c>>

friVars == <<params, indices, proof, pc, compressed, fri_query_indices,
             fri_inferred_elements, tampered, first_key, result>>

vars == <<fieldVars, friVars>>

(***************************************************************************)
(* Unsigned integers as little-endian byte tuples.                         *)
(***************************************************************************)
\* a + b on n bytes: the wrapped sum and the carry out.
RECURSIVE AddLimbs(_, _, _, _, _)
AddLimbs(a, b, i, carry, acc) ==
    IF i > Len(a) THEN [val |-> acc, over |-> carry = 1]
    ELSE LET s == a[i] + b[i] + carry
         IN AddLimbs(a, b, i + 1, s \div 256, Append(acc, s % 256))

overflowing_add(a, b) == AddLimbs(a, b, 1, 0, <<>>)

\* a - b on n bytes: the wrapped difference and the borrow out.
RECURSIVE SubLimbs(_, _, _, _, _)
SubLimbs(a, b, i, borrow, acc) ==
    IF i > Len(a) THEN [val |-> acc, under |-> borrow = 1]
    ELSE LET d == a[i] - b[i] - borrow
         IN SubLimbs(a, b, i + 1, IF d < 0 THEN 1 ELSE 0,
                     Append(acc, IF d < 0 THEN d + 256 ELSE d))

overflowing_sub(a, b) == SubLimbs(a, b, 1, 0, <<>>)

\* a >= b, a < b as unsigned integers of the same width.
Geq(a, b) == ~overflowing_sub(a, b).under
Less(a, b) == overflowing_sub(a, b).under

is_even(a) == a[1] % 2 = 0

\* a / 2 (a >> 1).
Half(a) ==
    << (a[1] \div 2) + ((a[2] % 2) * 128), (a[2] \div 2) + ((a[3] % 2) * 128),
       (a[3] \div 2) + ((a[4] % 2) * 128), (a[4] \div 2) + ((a[5] % 2) * 128),
       (a[5] \div 2) + ((a[6] % 2) * 128), (a[6] \div 2) + ((a[7] % 2) * 128),
       (a[7] \div 2) + ((a[8] % 2) * 128), a[8] \div 2 >>

\* The 128-bit product of two u64: column sums with carry.
RECURSIVE MulLimbs(_, _, _, _, _)
MulLimbs(a, b, k, carry, acc) ==
    IF k > 16 THEN acc
    ELSE LET lo == IF k > 8 THEN k - 7 ELSE 1
             hi == IF k > 8 THEN 8 ELSE k
             RECURSIVE Col(_)
             Col(i) == IF i > hi THEN 0 ELSE a[i] * b[k + 1 - i] + Col(i + 1)
             s == Col(lo) + carry
         IN MulLimbs(a, b, k + 1, s \div 256, Append(acc, s % 256))

widening_mul(a, b) == MulLimbs(a, b, 1, 0, <<>>)

\* The mathematical residue of an n-byte integer modulo an 8-byte modulus m,
\* by binary long division from the most significant bit (9-byte remainder).

Double9(r, bit) ==
    << ((r[1] * 2) % 256) + bit,
       ((r[2] * 2) % 256) + (r[1] \div 128), ((r[3] * 2) % 256) + (r[2] \div 128),
       ((r[4] * 2) % 256) + (r[3] \div 128), ((r[5] * 2) % 256) + (r[4] \div 128),
       ((r[6] * 2) % 256) + (r[5] \div 128), ((r[7] * 2) % 256) + (r[6] \div 128),
       ((r[8] * 2) % 256) + (r[7] \div 128), ((r[9] * 2) % 256) + (r[8] \div 128) >>

\* One step of the division: r = 2 r + bit, minus m when that is not below m.
ResidueStep(r, bit, m9) ==
    LET r2 == Double9(r, bit)
        d  == overflowing_sub(r2, m9)
    IN IF d.under THEN r2 ELSE d.val

\* The eight steps of one byte, most significant bit first.
ResidueByte(r, byte, m9) ==
    LET r7 == ResidueStep(r, (byte \div 128) % 2, m9)
        r6 == ResidueStep(r7, (byte \div 64) % 2, m9)
        r5 == ResidueStep(r6, (byte \div 32) % 2, m9)
        r4 == ResidueStep(r5, (byte \div 16) % 2, m9)
        r3 == ResidueStep(r4, (byte \div 8) % 2, m9)
        r2 == ResidueStep(r3, (byte \div 4) % 2, m9)
        r1 == ResidueStep(r2, (byte \div 2) % 2, m9)
    IN ResidueStep(r1, byte % 2, m9)

RECURSIVE ResidueFrom(_, _, _, _)
ResidueFrom(a, m9, i, r) ==
    IF i = 0 THEN SubSeq(r, 1, 8)
    ELSE LET r8 == ResidueByte(r, a[i], m9)
         IN IF r8[9] = 0 THEN ResidueFrom(a, m9, i - 1, r8)
            ELSE ResidueFrom(a, m9, i - 1, r8)

Residue(a, m) ==
    ResidueFrom(a, Append(m, 0), Len(a), <<0, 0, 0, 0, 0, 0, 0, 0, 0>>)

(***************************************************************************)
(* GoldilocksField                                                         *)
(***************************************************************************)
\* const EPSILON: u64 = (1u64 << 32) - 1
EPSILON == <<255, 255, 255, 255, 0, 0, 0, 0>>

\* const ORDER: u64 = 0xFFFFFFFF00000001
ORDER == <<1, 0, 0, 0, 255, 255, 255, 255>>

ZERO == <<0, 0, 0, 0, 0, 0, 0, 0>>
ONE == <<1, 0, 0, 0, 0, 0, 0, 0>>
TWO == <<2, 0, 0, 0, 0, 0, 0, 0>>
NEG_ONE == overflowing_sub(ORDER, ONE).val
MULTIPLICATIVE_GROUP_GENERATOR == <<5, 0, 0, 0, 0, 0, 0, 0>>

\* A canonicalisation that forgets the subtraction.
StoredValue(a) == a

\* fn to_canonical_u64: one conditional subtraction of ORDER.
to_canonical_u64(a) ==
    IF Geq(a, ORDER) THEN overflowing_sub(a, ORDER).val ELSE a

\* fn from_canonical_u64(n) = Self(n): the argument is stored as given.
from_canonical_u64(n) == n

\* impl PartialEq: equality of the canonical values.
eq(a, b) == to_canonical_u64(a) = to_canonical_u64(b)

\* impl Hash: the u64 written to the hasher's state.
Hash(a) == to_canonical_u64(a)

\* The decimal digits that the formatter of u64 prints, the most significant
\* first: division by ten, byte by byte from the most significant byte.
RECURSIVE DivTen(_, _, _, _)
DivTen(a, i, rem, quot) ==
    IF i = 0 THEN [quot |-> quot, rem |-> rem]
    ELSE DivTen(a, i - 1, ((rem * 256) + a[i]) % 10,
                <<((rem * 256) + a[i]) \div 10>> \o quot)

RECURSIVE Digits(_)
Digits(a) ==
    IF \A i \in 1..Len(a) : a[i] = 0 THEN <<>>
    ELSE LET d == DivTen(a, Len(a), 0, <<>>)
         IN Append(Digits(d.quot), d.rem)

u64_fmt(n) == IF Digits(n) = <<>> THEN <<0>> ELSE Digits(n)

\* impl Display and impl Debug: the stored u64 is printed.
Display(a) == u64_fmt(a)
Debug(a) == u64_fmt(a)

\* Field::is_zero: equality with ZERO.
is_zero(a) == eq(a, ZERO)

\* impl Add: wrapping sum, minus ORDER when the sum overflowed.
add(a, b) ==
    LET s == overflowing_add(a, b)
    IN overflowing_sub(s.val, IF s.over THEN ORDER ELSE ZERO).val

\* impl Sub: a - canonical(b), plus ORDER when the difference underflowed.
sub(a, b) ==
    LET d == overflowing_sub(a, to_canonical_u64(b))
    IN overflowing_add(d.val, IF d.under THEN ORDER ELSE ZERO).val

\* impl Neg.
neg(a) ==
    IF is_zero(a) THEN ZERO
    ELSE overflowing_sub(ORDER, to_canonical_u64(a)).val

\* fn split(x: u128) -> (lo, hi).
split(w) == [lo |-> SubSeq(w, 1, 8), hi |-> SubSeq(w, 9, 16)]

\* hi >> 32, hi & LO_32b_MASK (the low 32 bits), hilo << 32 on u64.
Shr32(a) == <<a[5], a[6], a[7], a[8], 0, 0, 0, 0>>
And32(a) == <<a[1], a[2], a[3], a[4], 0, 0, 0, 0>>
Shl32(a) == <<0, 0, 0, 0, a[1], a[2], a[3], a[4]>>

\* fn reduce128: lo + (hilo << 32) - hilo - hihi, evaluated left to right with
\* the u64 operators + and -.  val is the wrapped value (overflow checks off);
\* overflow tells whether one of the three operations left [0, 2^64), which
\* panics when overflow checks are on.
reduce128(w) ==
    LET s    == split(w)
        hihi == Shr32(s.hi)
        hilo == And32(s.hi)
        t1   == overflowing_add(s.lo, Shl32(hilo))
        t2   == overflowing_sub(t1.val, hilo)
        t3   == overflowing_sub(t2.val, hihi)
    IN [val |-> t3.val, overflow |-> t1.over \/ t2.under \/ t3.under]

\* impl Mul: reduce128 of the 128-bit product.
mul(a, b) == reduce128(widening_mul(a, b))

\* A product inside a chain of multiplications: the wrapped value, and whether
\* this or an earlier multiplication of the chain overflowed.
Times(a, b) ==
    LET m == mul(a.val, b.val)
    IN [val |-> m.val, overflow |-> a.overflow \/ b.overflow \/ m.overflow]

\* fn square = self * self; fn cube = self * self * self.
square(a) == mul(a, a)
cube(a) == Times(square(a), [val |-> a, overflow |-> FALSE])

\* fn cube_root: the chain of the source, one entry <<k, i, j>> per line
\* "let xk = xi * xj" (xi.square() is xi * xi), in the order of the source.
CubeRootChain == <<
    <<1, 0, 0>>, <<2, 1, 1>>, <<3, 2, 0>>, <<4, 3, 3>>, <<5, 4, 4>>, <<7, 5, 5>>,
    <<8, 7, 7>>, <<9, 8, 8>>, <<10, 9, 9>>, <<11, 10, 5>>, <<12, 11, 11>>, <<13, 12, 12>>,
    <<14, 13, 13>>, <<16, 14, 14>>, <<17, 16, 16>>, <<18, 17, 17>>, <<19, 18, 18>>, <<20, 19, 19>>,
    <<21, 20, 11>>, <<22, 21, 21>>, <<23, 22, 22>>, <<24, 23, 23>>, <<25, 24, 24>>, <<26, 25, 25>>,
    <<27, 26, 26>>, <<28, 27, 27>>, <<29, 28, 28>>, <<30, 29, 29>>, <<31, 30, 30>>, <<32, 31, 31>>,
    <<33, 32, 14>>, <<34, 33, 3>>, <<35, 34, 34>>, <<36, 35, 34>>, <<37, 36, 5>>, <<38, 37, 34>>,
    <<39, 38, 37>>, <<40, 39, 39>>, <<41, 40, 40>>, <<42, 41, 38>>, <<43, 42, 42>>, <<44, 43, 43>>,
    <<45, 44, 44>>, <<46, 45, 45>>, <<47, 46, 46>>, <<48, 47, 47>>, <<49, 48, 48>>, <<50, 49, 49>>,
    <<51, 50, 50>>, <<52, 51, 51>>, <<53, 52, 52>>, <<54, 53, 53>>, <<55, 54, 54>>, <<56, 55, 55>>,
    <<57, 56, 56>>, <<58, 57, 57>>, <<59, 58, 58>>, <<60, 59, 59>>, <<61, 60, 60>>, <<62, 61, 61>>,
    <<63, 62, 62>>, <<64, 63, 63>>, <<65, 64, 64>>, <<66, 65, 65>>, <<67, 66, 66>>, <<68, 67, 67>>,
    <<69, 68, 68>>, <<70, 69, 69>>, <<71, 70, 70>>, <<72, 71, 71>>, <<73, 72, 72>>, <<74, 73, 39>> >>

\* The entries lo..hi of the chain, in order, on the values xs computed so far.
RECURSIVE RunChain(_, _, _, _)
RunChain(chain, lo, hi, xs) ==
    IF lo > hi THEN xs
    ELSE IF lo = hi
    THEN (chain[lo][1] :> Times(xs[chain[lo][2]], xs[chain[lo][3]])) @@ xs
    ELSE LET mid == (lo + hi) \div 2
             first == RunChain(chain, lo, mid, xs)
         IN IF DOMAIN first = {} THEN first
            ELSE RunChain(chain, mid + 1, hi, first)

\* x0 = *self; the result is x74.
cube_root(a) ==
    RunChain(CubeRootChain, 1, Len(CubeRootChain),
             (0 :> [val |-> a, overflow |-> FALSE]))[74]

\* try_inverse, "b = (b + p)/2, avoiding overflow": b / 2 when b is even, else
\* (b / 2) + (p / 2) + 1 with the u64 operator +.
HalveModP(b) ==
    IF is_even(b) THEN [val |-> Half(b), overflow |-> FALSE]
    ELSE LET s1 == overflowing_add(Half(b), Half(ORDER))
             s2 == overflowing_add(s1.val, ONE)
         IN [val |-> s2.val, overflow |-> s1.over \/ s2.over]

\* try_inverse, "while u.is_even() { u /= 2; b = ... }" (and the same loop on
\* v and c): up to n turns of the loop.  A nonzero u64 is even at most 63
\* times in a row, so that 64 turns are the whole loop.
RECURSIVE HalveTurns(_, _)
HalveTurns(n, s) ==
    IF ~is_even(s.u) THEN s
    ELSE IF n = 1
    THEN LET h == HalveModP(s.b)
         IN [u |-> Half(s.u), b |-> h.val, overflow |-> s.overflow \/ h.overflow]
    ELSE LET t == HalveTurns(n \div 2, s)
         IN IF is_even(t.u) THEN HalveTurns(n \div 2, t) ELSE t

HalveWhileEven(u, b, ovf) == HalveTurns(64, [u |-> u, b |-> b, overflow |-> ovf])

\* A difference that is left as it wrapped.
WrappingSub(b, c) == overflowing_sub(b, c).val

\* try_inverse, "b -= c": overflowing_sub, plus p (wrapping) on a borrow.
SubModP(b, c) ==
    LET d == overflowing_sub(b, c)
    IN IF d.under THEN overflowing_add(d.val, ORDER).val ELSE d.val

\* One iteration of "while u != 1 && v != 1".
InverseIteration(u, v, b, c) ==
    LET h1 == HalveWhileEven(u, b, FALSE)
        h2 == HalveWhileEven(v, c, FALSE)
        ovf == h1.overflow \/ h2.overflow
    IN IF Geq(h1.u, h2.u)
       THEN [u |-> overflowing_sub(h1.u, h2.u).val, v |-> h2.u,
             b |-> SubModP(h1.b, h2.b), c |-> h2.b, overflow |-> ovf]
       ELSE [u |-> h1.u, v |-> overflowing_sub(h2.u, h1.u).val,
             b |-> h1.b, c |-> SubModP(h2.b, h1.b), overflow |-> ovf]

(***************************************************************************)
(* The field operations as a state machine: two stored values x and y, one *)
(* operation applied to them, its outcome in out.                          *)
(***************************************************************************)
Value(v) == [kind |-> "value", val |-> v, why |-> "-"]
None == [kind |-> "none", val |-> ZERO, why |-> "-"]
Panic(why) == [kind |-> "panic", val |-> ZERO, why |-> why]

\* The outcome of an expression built from the u64 operators + and -: the
\* wrapped value, or a panic where the build checks for overflow.
Checked(r) ==
    IF overflow_checks /\ r.overflow THEN Panic("overflow") ELSE Value(r.val)

\* Stored representatives the operations are applied to: GoldilocksField(pub u64)
\* and from_canonical_u64 store any u64, canonical or not.
Samples ==
    { ZERO, ONE, TWO, MULTIPLICATIVE_GROUP_GENERATOR,
      <<3, 0, 0, 0, 0, 0, 0, 0>>,
      <<57, 48, 0, 0, 0, 0, 0, 0>>,                  \* 12345
      EPSILON,                                        \* 2^32 - 1
      <<0, 0, 0, 0, 1, 0, 0, 0>>,                    \* 2^32
      <<0, 0, 0, 0, 0, 0, 1, 0>>,                    \* 2^48
      <<0, 0, 0, 0, 0, 0, 0, 128>>,                  \* 2^63
      <<240, 222, 188, 154, 120, 86, 52, 18>>,       \* 0x123456789ABCDEF0
      NEG_ONE,                                        \* p - 1
      ORDER,                                          \* p
      <<2, 0, 0, 0, 255, 255, 255, 255>>,            \* p + 1
      <<254, 255, 255, 255, 255, 255, 255, 255>>,    \* 2^64 - 2
      <<255, 255, 255, 255, 255, 255, 255, 255>> }   \* 2^64 - 1

Finish(name, outcome) ==
    /\ fpc = "idle"
    /\ fpc' = "done"
    /\ op' = name
    /\ out' = outcome
    /\ UNCHANGED <<overflow_checks, x, y, inv_u, inv_v, inv_b, inv_c>>
    /\ UNCHANGED friVars

Add == Finish("add", Value(add(x, y)))
Sub == Finish("sub", Value(sub(x, y)))
Neg == Finish("neg", Value(neg(x)))
Mul == Finish("mul", Checked(mul(x, y)))
Square == Finish("square", Checked(square(x)))
Cube == Finish("cube", Checked(cube(x)))
CubeRoot == Finish("cube_root", Checked(cube_root(x)))
ToCanonical == Finish("to_canonical_u64", Value(to_canonical_u64(x)))

\* What an observer of x gets: the outcome of x == y, the u64 that hashing x
\* writes, and the digits that printing x with {} and with {:?} gives.
Bool(b) == [kind |-> "bool", val |-> IF b THEN ONE ELSE ZERO, why |-> "-"]
Written(n) == [kind |-> "written", val |-> n, why |-> "-"]
Printed(digits) == [kind |-> "printed", val |-> digits, why |-> "-"]

PartialEq == Finish("eq", Bool(eq(x, y)))
WriteHash == Finish("hash", Written(Hash(x)))
FmtDisplay == Finish("Display::fmt", Printed(Display(x)))
FmtDebug == Finish("Debug::fmt", Printed(Debug(x)))

\* try_inverse up to the loop: None for zero, else u, v, b, c = x, p, 1, 0.
TryInverseBegin ==
    /\ fpc = "idle"
    /\ op' = "try_inverse"
    /\ IF is_zero(x)
       THEN /\ fpc' = "done"
            /\ out' = None
            /\ UNCHANGED <<inv_u, inv_v, inv_b, inv_c>>
       ELSE /\ fpc' = "loop"
            /\ out' = out
            /\ inv_u' = to_canonical_u64(x)
            /\ inv_v' = ORDER
            /\ inv_b' = ONE
            /\ inv_c' = ZERO
    /\ UNCHANGED <<overflow_checks, x, y>>
    /\ UNCHANGED friVars

\* One iteration of the loop of try_inverse.
TryInverseLoop ==
    /\ fpc = "loop"
    /\ inv_u # ONE /\ inv_v # ONE
    /\ LET n == InverseIteration(inv_u, inv_v, inv_b, inv_c)
       IN IF overflow_checks /\ n.overflow
          THEN /\ fpc' = "done"
               /\ out' = Panic("overflow")
               /\ UNCHANGED <<inv_u, inv_v, inv_b, inv_c>>
          ELSE /\ fpc' = "loop"
               /\ out' = out
               /\ inv_u' = n.u /\ inv_v' = n.v /\ inv_b' = n.b /\ inv_c' = n.c
    /\ UNCHANGED <<overflow_checks, x, y, op>>
    /\ UNCHANGED friVars

\* The end of try_inverse: assert_eq!(*self * inverse, Self::ONE); Some(inverse).
TryInverseEnd ==
    /\ fpc = "loop"
    /\ inv_u = ONE \/ inv_v = ONE
    /\ LET inverse == IF inv_u = ONE THEN inv_b ELSE inv_c
           m == mul(x, inverse)
       IN out' = IF overflow_checks /\ m.overflow THEN Panic("overflow")
                 ELSE IF ~eq(m.val, ONE) THEN Panic("assert_eq")
                 ELSE Value(inverse)
    /\ fpc' = "done"
    /\ UNCHANGED <<overflow_checks, x, y, op, inv_u, inv_v, inv_b, inv_c>>
    /\ UNCHANGED friVars

FieldNext ==
    \/ Add \/ Sub \/ Neg \/ Mul \/ Square \/ Cube \/ CubeRoot \/ ToCanonical
    \/ PartialEq \/ WriteHash \/ FmtDisplay \/ FmtDebug
    \/ TryInverseBegin \/ TryInverseLoop \/ TryInverseEnd


(***************************************************************************)
(* FRI proofs: the data model of fri/proof.rs.                             *)
(*   MerkleProof               [siblings]                                  *)
(*   FriQueryStep              [evals, merkle_proof]                       *)
(*   FriInitialTreeProof       [evals_proofs], a sequence of <<leaves,     *)
(*                             merkle_proof>>                              *)
(*   FriQueryRound             [initial_trees_proof, steps]                *)
(*   FriProof                  [commit_phase_merkle_caps,                  *)
(*                              query_round_proofs, final_poly,            *)
(*                              pow_witness]                               *)
(*   CompressedFriQueryRounds  [indices, initial_trees_proofs, steps]; a   *)
(*                             HashMap is a function on its key set        *)
(*   CompressedFriProof        as FriProof, query_round_proofs compressed  *)
(* Sequences are indexed from 1: oracle t and reduction depth i of the     *)
(* source are t + 1 and i + 1 here.                                        *)
(***************************************************************************)
\* The degree of the extension field (GenericConfig<2>): an element of
\* F::Extension is a tuple of D base field elements.
D == 2

Min(a, b) == IF a <= b THEN a ELSE b

\* index ^ 1
Xor1(n) == IF n % 2 = 0 THEN n + 1 ELSE n - 1

\* The sequence s without its element at position i, and with e inserted at
\* position i (Vec::remove, Vec::insert; positions from 1 here).
\* A removal that ignores the position.
PopBack(s, i) == SubSeq(s, 1, Len(s) - 1)

RemoveAt(s, i) == SubSeq(s, 1, i - 1) \o SubSeq(s, i + 1, Len(s))
\* An insertion that ignores the position.
PushBack(s, i, e) == Append(s, e)

InsertAt(s, i, e) == SubSeq(s, 1, i - 1) \o <<e>> \o SubSeq(s, i, Len(s))

\* flatten: the base field coordinates of a sequence of extension elements;
\* unflatten: chunks of D base field elements back to extension elements.
RECURSIVE flatten(_)
flatten(evals) ==
    IF evals = <<>> THEN <<>> ELSE Head(evals) \o flatten(Tail(evals))

RECURSIVE unflatten(_)
unflatten(flat) ==
    IF Len(flat) < D THEN <<>>
    ELSE <<SubSeq(flat, 1, D)>> \o unflatten(SubSeq(flat, D + 1, Len(flat)))

\* The index after the first i reductions: "index >>= reduction_arity_bits[j]"
\* for j < i.
RECURSIVE ShiftedIndex(_, _, _)
ShiftedIndex(index, arity_bits, i) ==
    IF i = 0 THEN index
    ELSE ShiftedIndex(index, arity_bits, i - 1) \div (2 ^ arity_bits[i])

\* A position that misses the mask.
UnmaskedIndex(index, arity_bits, i) == ShiftedIndex(index, arity_bits, i - 1)

\* "index & ((1 << reduction_arity_bits[i]) - 1)" at reduction i (from 1).
IndexWithinCoset(index, arity_bits, i) ==
    ShiftedIndex(index, arity_bits, i - 1) % (2 ^ arity_bits[i])

(***************************************************************************)
(* Merkle trees and the path compression of hash/path_compression.rs.  A   *)
(* digest is the term it was computed from: hash(v) is [leaf |-> v] and    *)
(* two_to_one(l, r) is [l |-> l, r |-> r].                                 *)
(***************************************************************************)
hash(v) == [leaf |-> v]
two_to_one(l, r) == [l |-> l, r |-> r]

\* The digest of the node at `level` above the leaves, position pos in its
\* level, of the tree with the leaves `leaf`.
RECURSIVE NodeDigest(_, _, _)
NodeDigest(leaf, level, pos) ==
    IF level = 0 THEN hash(leaf[pos])
    ELSE two_to_one(NodeDigest(leaf, level - 1, 2 * pos),
                    NodeDigest(leaf, level - 1, 2 * pos + 1))

\* The Merkle proof of leaf idx against the cap: the siblings from the leaf up.
MerkleProofOf(leaf, height, cap_height, idx) ==
    [siblings |->
        [l \in 1..(height - cap_height) |->
            NodeDigest(leaf, l - 1, Xor1(idx \div (2 ^ (l - 1))))]]

\* compress_merkle_proofs: every node on a path from a queried leaf is known;
\* a proof keeps a sibling only when it is not known yet, and then it is.
RECURSIVE CompressSiblings(_, _, _, _, _)
CompressSiblings(siblings, l, index, known, kept) ==
    IF l > Len(siblings) THEN [siblings |-> kept, known |-> known]
    ELSE IF Xor1(index) \in known
         THEN CompressSiblings(siblings, l + 1, index \div 2, known, kept)
         ELSE CompressSiblings(siblings, l + 1, index \div 2,
                               known \cup {Xor1(index)}, Append(kept, siblings[l]))

RECURSIVE CompressProofs(_, _, _, _, _, _)
CompressProofs(is, ps, num_leaves, k, known, acc) ==
    IF k > Min(Len(is), Len(ps)) THEN acc
    ELSE LET c == CompressSiblings(ps[k].siblings, 1, is[k] + num_leaves, known, <<>>)
         IN CompressProofs(is, ps, num_leaves, k + 1, c.known,
                           Append(acc, [siblings |-> c.siblings]))

compress_merkle_proofs(cap_height, is, ps) ==
    IF ps = <<>> THEN <<>>
    ELSE LET height == cap_height + Len(ps[1].siblings)
             num_leaves == 2 ^ height
             known == { (is[k] + num_leaves) \div (2 ^ j) :
                           k \in 1..Len(is), j \in 0..(height - cap_height - 1) }
         IN CompressProofs(is, ps, num_leaves, 1, known, <<>>)

\* decompress_merkle_proofs: the digests of the leaves, then layer by layer the
\* sibling of every path node (seen already, or the next one of the compressed
\* proof) and the parent; at last the siblings of every path, read from `seen`.
\* [ok, proofs]: ok is FALSE when a compressed proof runs out of siblings.
RECURSIVE ObserveLeaves(_, _, _, _, _)
ObserveLeaves(ls, is, num_leaves, k, seen) ==
    IF k > Min(Len(is), Len(ls)) THEN seen
    ELSE ObserveLeaves(ls, is, num_leaves, k + 1,
                       ((is[k] + num_leaves) :> hash(ls[k])) @@ seen)

RECURSIVE FillLayer(_, _, _, _, _, _, _)
FillLayer(is, ps, num_leaves, layer, k, seen, used) ==
    IF k > Min(Len(is), Len(ps)) THEN [ok |-> TRUE, seen |-> seen, used |-> used]
    ELSE LET index == (is[k] + num_leaves) \div (2 ^ layer)
             sib == Xor1(index)
             fresh == sib \notin DOMAIN seen
         IN IF fresh /\ used[k] >= Len(ps[k].siblings)
            THEN [ok |-> FALSE, seen |-> seen, used |-> used]
            ELSE LET sibling_hash == IF fresh THEN ps[k].siblings[used[k] + 1]
                                     ELSE seen[sib]
                     parent_hash == IF index % 2 = 0
                                    THEN two_to_one(seen[index], sibling_hash)
                                    ELSE two_to_one(sibling_hash, seen[index])
                     seen2 == ((index \div 2) :> parent_hash)
                                 @@ (sib :> sibling_hash) @@ seen
                 IN FillLayer(is, ps, num_leaves, layer, k + 1, seen2,
                              IF fresh THEN [used EXCEPT ![k] = @ + 1] ELSE used)

RECURSIVE FillLayers(_, _, _, _, _, _, _)
FillLayers(is, ps, num_leaves, layers, layer, seen, used) ==
    IF layer >= layers THEN [ok |-> TRUE, seen |-> seen]
    ELSE LET f == FillLayer(is, ps, num_leaves, layer, 1, seen, used)
         IN IF ~f.ok THEN [ok |-> FALSE, seen |-> seen]
            ELSE FillLayers(is, ps, num_leaves, layers, layer + 1, f.seen, f.used)

decompress_merkle_proofs(ls, is, ps, height, cap_height) ==
    LET num_leaves == 2 ^ height
        f == FillLayers(is, ps, num_leaves, height - cap_height, 0,
                        ObserveLeaves(ls, is, num_leaves, 1, <<>>),
                        [k \in 1..Len(ps) |-> 0])
    IN IF ~f.ok THEN [ok |-> FALSE, proofs |-> <<>>]
       ELSE [ok |-> TRUE,
             proofs |->
                [k \in 1..Len(is) |->
                    [siblings |->
                        [l \in 1..(height - cap_height) |->
                            f.seen[Xor1((is[k] + num_leaves) \div (2 ^ (l - 1)))]]]]]

(***************************************************************************)
(* The proofs handed to compress: the prover's answers for the queried     *)
(* indices.  Round k is answered from the trees of variant[k]; a           *)
(* deterministic prover answers every round from the same trees.           *)
(***************************************************************************)
\* Bounds of the model.
MaxQueries == 2
NumOracles == 2
NumVariants == 2

\* FriParams: a tree of 2^(degree_bits + rate_bits) leaves and every shape of
\* reduction_arity_bits that fits it together with the cap height.
ParamChoices ==
    { [cap_height |-> c, rate_bits |-> 1, degree_bits |-> 2, reduction_arity_bits |-> a] :
        c \in {0}, a \in {<<>>, <<1>>, <<2>>, <<1, 1>>, <<2, 1>>, <<1, 2>>} }
    \cup
    { [cap_height |-> 1, rate_bits |-> 1, degree_bits |-> 2, reduction_arity_bits |-> a] :
        a \in {<<1>>, <<2>>, <<1, 1>>} }

\* A scan that yields the accumulator as it was before each subtraction.
RECURSIVE HeightBefore(_, _)
HeightBefore(p, i) ==
    IF i <= 1 THEN p.degree_bits + p.rate_bits
    ELSE HeightBefore(p, i - 1) - p.reduction_arity_bits[i - 1]


\* h_0 = degree_bits + rate_bits and the height after the first i reductions.
RECURSIVE HeightAfter(_, _)
HeightAfter(p, i) ==
    IF i = 0 THEN p.degree_bits + p.rate_bits
    ELSE HeightAfter(p, i - 1) - p.reduction_arity_bits[i]

\* The leaves of oracle t and the evaluations of the i-th reduced polynomial
\* on the coset `key`, in the trees of variant v.
LeafData(t, idx, v) == <<((v * 8 + t) * 64 + idx) * 2, ((v * 8 + t) * 64 + idx) * 2 + 1>>

CosetEvals(p, i, key, v) ==
    [c \in 1..(2 ^ p.reduction_arity_bits[i]) |->
        << (((v * 8 + i) * 64 + key) * 16 + c) * 2 + 4096,
           (((v * 8 + i) * 64 + key) * 16 + c) * 2 + 4097 >>]

InitialTreeLeaves(p, t, v) ==
    [idx \in 0..(2 ^ HeightAfter(p, 0) - 1) |-> LeafData(t, idx, v)]

StepTreeLeaves(p, i, v) ==
    [key \in 0..(2 ^ HeightAfter(p, i) - 1) |-> flatten(CosetEvals(p, i, key, v))]

QueryRound(p, index, v) ==
    [initial_trees_proof |->
        [evals_proofs |->
            [t \in 1..NumOracles |->
                << LeafData(t, index, v),
                   MerkleProofOf(InitialTreeLeaves(p, t, v), HeightAfter(p, 0),
                                 p.cap_height, index) >>]],
     steps |->
        [i \in 1..Len(p.reduction_arity_bits) |->
            [evals |-> CosetEvals(p, i, ShiftedIndex(index, p.reduction_arity_bits, i), v),
             merkle_proof |->
                MerkleProofOf(StepTreeLeaves(p, i, v), HeightAfter(p, i), p.cap_height,
                              ShiftedIndex(index, p.reduction_arity_bits, i))]]]

ProverProof(p, is, variant) ==
    [commit_phase_merkle_caps |-> [i \in 1..Len(p.reduction_arity_bits) |-> 900 + i],
     query_round_proofs |-> [k \in 1..Len(is) |-> QueryRound(p, is[k], variant[k])],
     final_poly |-> << <<7, 8>> >>,
     pow_witness |-> 42]

NoFriProof ==
    [commit_phase_merkle_caps |-> <<>>, query_round_proofs |-> <<>>,
     final_poly |-> <<>>, pow_witness |-> 0]

NoCompressedFriProof ==
    [commit_phase_merkle_caps |-> <<>>,
     query_round_proofs |-> [indices |-> <<>>, initial_trees_proofs |-> <<>>, steps |-> <<>>],
     final_poly |-> <<>>, pow_witness |-> 0]

(***************************************************************************)
(* FriProof::compress                                                      *)
(***************************************************************************)
OraclesOf(round) == Len(round.initial_trees_proof.evals_proofs)

\* The places where compress indexes out of bounds (a panic).
CompressPanics(P, is, p) ==
    LET qrps == P.query_round_proofs
        R == Len(p.reduction_arity_bits)
        n == Min(Len(is), Len(qrps))
    IN \/ qrps = <<>>                                 \* query_round_proofs[0]
       \/ \E k \in 1..n :
             \/ OraclesOf(qrps[k]) > OraclesOf(qrps[1])  \* initial_trees_indices[i]
             \/ Len(qrps[k].steps) > R                    \* reduction_arity_bits[i]
             \/ \E i \in 1..Min(R, Len(qrps[k].steps)) :  \* evals.remove(index_within_coset)
                   IndexWithinCoset(is[k], p.reduction_arity_bits, i)
                      >= Len(qrps[k].steps[i].evals)
       \/ /\ Len(qrps) < Len(is)                      \* initial_trees_leaves[j][i],
          /\ (OraclesOf(qrps[1]) > 0 \/ R > 0)         \* steps_evals[j][i]
       \/ \E k \in 1..n :
             \/ OraclesOf(qrps[k]) < OraclesOf(qrps[1])  \* initial_trees_leaves[j][i]
             \/ Len(qrps[k].steps) < R                    \* steps_evals[j][i]

\* "Replace the query round proofs with the compressed versions": the entries
\* of query k, inserted where the key is vacant (entry(index).or_insert).
\* An insertion that is lost.
KeepMap(map, key, value) == map

\* insert(key, value): the last writer wins.
Overwrite(map, key, value) ==
    (key :> value) @@ [k \in DOMAIN map \ {key} |-> map[k]]

OrInsert(map, key, value) ==
    IF key \in DOMAIN map THEN map ELSE (key :> value) @@ map

RECURSIVE PackQueries(_, _, _, _, _, _, _, _)
PackQueries(is, arity_bits, leaves, iproofs, sevals, sproofs, k, cq) ==
    IF k > Len(is) THEN cq
    ELSE LET initial_proof ==
                 [evals_proofs |->
                     [j \in 1..Len(leaves) |-> <<leaves[j][k], iproofs[j][k]>>]]
             query_step(j) ==
                 [evals |-> sevals[j][k], merkle_proof |-> sproofs[j][k]]
         IN PackQueries(is, arity_bits, leaves, iproofs, sevals, sproofs, k + 1,
                [indices |-> cq.indices,
                 initial_trees_proofs |->
                     OrInsert(cq.initial_trees_proofs, is[k], initial_proof),
                 steps |->
                     [j \in 1..Len(arity_bits) |->
                         OrInsert(cq.steps[j], ShiftedIndex(is[k], arity_bits, j),
                                  query_step(j))]])

\* The indices without the repetitions of an index.
RECURSIVE Distinct(_)
Distinct(s) ==
    IF s = <<>> THEN <<>>
    ELSE LET front == SubSeq(s, 1, Len(s) - 1)
         IN IF \E k \in 1..Len(front) : front[k] = s[Len(s)]
            THEN Distinct(front)
            ELSE Append(Distinct(front), s[Len(s)])

\* Compressed rounds that keep one copy of every index.
DistinctRounds(is, num_reductions) ==
    [indices |-> Distinct(is),
     initial_trees_proofs |-> <<>>,
     steps |-> [j \in 1..num_reductions |-> <<>>]]

\* The compressed rounds before an entry is inserted: indices.to_vec() and
\* empty maps.
CompressedFriQueryRounds(is, num_reductions) ==
    [indices |-> is,
     initial_trees_proofs |-> <<>>,
     steps |-> [j \in 1..num_reductions |-> <<>>]]

\* compress, where it does not panic.
compress(P, is, p) ==
    LET qrps == P.query_round_proofs
        arity_bits == p.reduction_arity_bits
        num_reductions == Len(arity_bits)
        num_initial_trees == OraclesOf(qrps[1])
        n == Min(Len(is), Len(qrps))
        \* the transposed query round proofs
        initial_trees_indices == [t \in 1..num_initial_trees |-> [k \in 1..n |-> is[k]]]
        initial_trees_leaves ==
            [t \in 1..num_initial_trees |->
                [k \in 1..n |-> qrps[k].initial_trees_proof.evals_proofs[t][1]]]
        initial_trees_proofs ==
            [t \in 1..num_initial_trees |->
                [k \in 1..n |-> qrps[k].initial_trees_proof.evals_proofs[t][2]]]
        steps_indices ==
            [i \in 1..num_reductions |->
                [k \in 1..n |-> ShiftedIndex(is[k], arity_bits, i)]]
        steps_evals ==
            [i \in 1..num_reductions |->
                [k \in 1..n |->
                    RemoveAt(qrps[k].steps[i].evals,
                             IndexWithinCoset(is[k], arity_bits, i) + 1)]]
        steps_proofs ==
            [i \in 1..num_reductions |-> [k \in 1..n |-> qrps[k].steps[i].merkle_proof]]
        \* the compressed Merkle proofs of every tree
        initial_compressed ==
            [t \in 1..num_initial_trees |->
                compress_merkle_proofs(p.cap_height, initial_trees_indices[t],
                                       initial_trees_proofs[t])]
        steps_compressed ==
            [i \in 1..num_reductions |->
                compress_merkle_proofs(p.cap_height, steps_indices[i], steps_proofs[i])]
    IN [commit_phase_merkle_caps |-> P.commit_phase_merkle_caps,
        query_round_proofs |->
            PackQueries(is, arity_bits, initial_trees_leaves, initial_compressed,
                        steps_evals, steps_compressed, 1,
                        CompressedFriQueryRounds(is, num_reductions)),
        final_poly |-> P.final_poly,
        pow_witness |-> P.pow_witness]

(***************************************************************************)
(* FriInferredElements: the removed evaluations, one for each first        *)
(* sighting of a (depth, post-shift key), challenge by challenge.          *)
(***************************************************************************)
RECURSIVE InferredElements(_, _, _, _, _, _, _)
InferredElements(P, is, arity_bits, k, i, seen, acc) ==
    IF k > Len(is) THEN acc
    ELSE IF i > Len(arity_bits)
         THEN InferredElements(P, is, arity_bits, k + 1, 1, seen, acc)
    ELSE LET key == ShiftedIndex(is[k], arity_bits, i)
             e == P.query_round_proofs[k].steps[i].evals[
                      IndexWithinCoset(is[k], arity_bits, i) + 1]
         IN IF <<i, key>> \in seen
            THEN InferredElements(P, is, arity_bits, k, i + 1, seen, acc)
            ELSE InferredElements(P, is, arity_bits, k, i + 1,
                                  seen \cup {<<i, key>>}, Append(acc, e))

(***************************************************************************)
(* CompressedFriProof::decompress                                          *)
(***************************************************************************)
NoPanic == "-"

\* A lookup that takes an entry whatever the key.
AnyEntry(map, key) == map[CHOOSE k \in DOMAIN map : TRUE]

\* initial_trees_proofs[&index] and steps[i][&index], for a key of the map.
EntryOf(map, key) == map[key]

\* An iterator that yields a default where the stream has ended.
NextOrDefault(inferred, used) ==
    [some |-> TRUE,
     val |-> IF used < Len(inferred) THEN inferred[used + 1] ELSE <<0, 0>>]

\* An iterator that does not advance.
PeekFirst(inferred, used) ==
    IF used < Len(inferred) THEN [some |-> TRUE, val |-> inferred[1]]
    ELSE [some |-> FALSE, val |-> <<0, 0>>]

\* fri_inferred_elements.next(), after `used` elements were taken.
NextInferred(inferred, used) ==
    IF used < Len(inferred) THEN [some |-> TRUE, val |-> inferred[used + 1]]
    ELSE [some |-> FALSE, val |-> <<0, 0>>]

\* The inner loop of the transposition: the steps of one challenge index.
RECURSIVE StepLoop(_, _, _, _, _, _)
StepLoop(qrp, index0, inferred, arity_bits, i, acc) ==
    IF i > Len(arity_bits) \/ acc.panic # NoPanic THEN acc
    ELSE LET index_within_coset == IndexWithinCoset(index0, arity_bits, i)
             index == ShiftedIndex(index0, arity_bits, i)
         IN IF i > Len(qrp.steps)
            THEN [acc EXCEPT !.panic = "steps[i]"]
            ELSE IF index \notin DOMAIN qrp.steps[i]
            THEN [acc EXCEPT !.panic = "steps[i][&index]"]
            ELSE LET step == EntryOf(qrp.steps[i], index)
                     seen == index \in DOMAIN acc.evals_by_depth[i]
                     next == NextInferred(inferred, acc.used)
                 IN IF ~seen /\ ~next.some
                    THEN [acc EXCEPT !.panic = "fri_inferred_elements.next().unwrap()"]
                    ELSE IF ~seen /\ index_within_coset > Len(step.evals)
                    THEN [acc EXCEPT !.panic = "evals.insert"]
                    ELSE LET evals ==
                                 IF seen THEN acc.evals_by_depth[i][index]
                                 ELSE InsertAt(step.evals, index_within_coset + 1, next.val)
                         IN StepLoop(qrp, index0, inferred, arity_bits, i + 1,
                                [acc EXCEPT
                                    !.used = IF seen THEN @ ELSE @ + 1,
                                    !.evals_by_depth[i] =
                                        IF seen THEN @ ELSE (index :> evals) @@ @,
                                    !.steps_indices[i] = Append(@, index),
                                    !.steps_evals[i] = Append(@, flatten(evals)),
                                    !.steps_proofs[i] = Append(@, step.merkle_proof)])

\* The loop over the challenge indices.
RECURSIVE IndexLoop(_, _, _, _, _, _, _)
IndexLoop(qrp, is, inferred, arity_bits, num_initial_trees, k, acc) ==
    IF k > Len(is) \/ acc.panic # NoPanic THEN acc
    ELSE IF is[k] \notin DOMAIN qrp.initial_trees_proofs
    THEN [acc EXCEPT !.panic = "initial_trees_proofs[&index]"]
    ELSE LET ep == EntryOf(qrp.initial_trees_proofs, is[k]).evals_proofs
         IN IF Len(ep) > num_initial_trees
            THEN [acc EXCEPT !.panic = "initial_trees_indices[i]"]
            ELSE IndexLoop(qrp, is, inferred, arity_bits, num_initial_trees, k + 1,
                    StepLoop(qrp, is[k], inferred, arity_bits, 1,
                        [acc EXCEPT
                            !.initial_trees_indices =
                                [t \in 1..num_initial_trees |->
                                    IF t <= Len(ep) THEN Append(@[t], is[k]) ELSE @[t]],
                            !.initial_trees_leaves =
                                [t \in 1..num_initial_trees |->
                                    IF t <= Len(ep) THEN Append(@[t], ep[t][1]) ELSE @[t]],
                            !.initial_trees_proofs =
                                [t \in 1..num_initial_trees |->
                                    IF t <= Len(ep) THEN Append(@[t], ep[t][2]) ELSE @[t]]]))

DecompressPanic(why) ==
    [kind |-> "panic", why |-> why, proof |-> NoFriProof, heights |-> <<>>, used |-> 0]

\* decompress where the first entry that initial_trees_proofs.values() yields
\* is the one of key `first`.  Beside the FriProof the result records the
\* heights given to decompress_merkle_proofs and how many elements were taken
\* from the iterator over fri_inferred_elements.
decompress(C, is, inferred, p, first) ==
    LET qrp == C.query_round_proofs
        cap_height == p.cap_height
        reduction_arity_bits == p.reduction_arity_bits
        num_reductions == Len(reduction_arity_bits)
        num_initial_trees == Len(qrp.initial_trees_proofs[first].evals_proofs)
        height == p.degree_bits + p.rate_bits
        heights == [i \in 1..num_reductions |-> HeightAfter(p, i)]
        t == IndexLoop(qrp, is, inferred, reduction_arity_bits, num_initial_trees, 1,
                [panic |-> NoPanic, used |-> 0,
                 evals_by_depth |-> [i \in 1..num_reductions |-> <<>>],
                 initial_trees_indices |-> [j \in 1..num_initial_trees |-> <<>>],
                 initial_trees_leaves |-> [j \in 1..num_initial_trees |-> <<>>],
                 initial_trees_proofs |-> [j \in 1..num_initial_trees |-> <<>>],
                 steps_indices |-> [i \in 1..num_reductions |-> <<>>],
                 steps_evals |-> [i \in 1..num_reductions |-> <<>>],
                 steps_proofs |-> [i \in 1..num_reductions |-> <<>>]])
        initial_trees_proofs ==
            [j \in 1..num_initial_trees |->
                decompress_merkle_proofs(t.initial_trees_leaves[j], t.initial_trees_indices[j],
                                         t.initial_trees_proofs[j], height, cap_height)]
        steps_proofs ==
            [i \in 1..num_reductions |->
                decompress_merkle_proofs(t.steps_evals[i], t.steps_indices[i],
                                         t.steps_proofs[i], heights[i], cap_height)]
    IN IF t.panic # NoPanic THEN DecompressPanic(t.panic)
       ELSE IF \/ \E j \in 1..num_initial_trees : ~initial_trees_proofs[j].ok
               \/ \E i \in 1..num_reductions : ~steps_proofs[i].ok
       THEN DecompressPanic("decompress_merkle_proofs")
       ELSE IF \E k \in 1..Len(is), j \in 1..num_initial_trees :
                  k > Len(t.initial_trees_leaves[j])
       THEN DecompressPanic("initial_trees_leaves[j][i]")
       ELSE [kind |-> "ok", why |-> NoPanic,
             proof |->
                [commit_phase_merkle_caps |-> C.commit_phase_merkle_caps,
                 query_round_proofs |->
                    [k \in 1..Len(is) |->
                        [initial_trees_proof |->
                            [evals_proofs |->
                                [j \in 1..num_initial_trees |->
                                    << t.initial_trees_leaves[j][k],
                                       initial_trees_proofs[j].proofs[k] >>]],
                         steps |->
                            [j \in 1..num_reductions |->
                                [evals |-> unflatten(t.steps_evals[j][k]),
                                 merkle_proof |-> steps_proofs[j].proofs[k]]]]],
                 final_poly |-> C.final_poly,
                 pow_witness |-> C.pow_witness],
             heights |-> <<height>> \o heights,
             used |-> t.used]

(***************************************************************************)
(* The FRI state machine: a proof is compressed; the compressed proof and  *)
(* the inferred elements travel to the verifier (CompressedFriProof is     *)
(* Serialize + Deserialize, so what arrives is whatever the sender wrote); *)
(* the verifier decompresses.                                              *)
(***************************************************************************)
IndexSeqs(p) ==
    UNION { [1..n -> 0..(2 ^ HeightAfter(p, 0) - 1)] : n \in 0..MaxQueries }

Variants(n) == { v \in [1..n -> 0..(NumVariants - 1)] : n = 0 \/ v[1] = 0 }

Defects == {"none", "short", "no_steps", "few_evals", "few_oracles"}

DropLast(s) == SubSeq(s, 1, Len(s) - 1)

\* A proof that misses a part of its last round.
Defective(P, defect) ==
    LET n == Len(P.query_round_proofs)
        last == P.query_round_proofs[n]
    IN IF n = 0 \/ defect = "none" THEN P
       ELSE IF defect = "short"
       THEN [P EXCEPT !.query_round_proofs = DropLast(@)]
       ELSE IF defect = "few_oracles"
       THEN [P EXCEPT !.query_round_proofs[n].initial_trees_proof.evals_proofs = DropLast(@)]
       ELSE IF last.steps = <<>> THEN P
       ELSE IF defect = "no_steps"
       THEN [P EXCEPT !.query_round_proofs[n].steps = DropLast(@)]
       ELSE [P EXCEPT !.query_round_proofs[n].steps[1].evals = DropLast(@)]

NoResult ==
    [kind |-> "none", why |-> NoPanic, proof |-> NoFriProof, heights |-> <<>>, used |-> 0]

FieldOff ==
    /\ overflow_checks = FALSE
    /\ x = ZERO /\ y = ZERO
    /\ fpc = "off"
    /\ op = "-"
    /\ out = None
    /\ inv_u = ZERO /\ inv_v = ZERO /\ inv_b = ZERO /\ inv_c = ZERO

FriOff ==
    /\ params = [cap_height |-> 0, rate_bits |-> 1, degree_bits |-> 2,
                 reduction_arity_bits |-> <<>>]
    /\ indices = <<>>
    /\ proof = NoFriProof
    /\ pc = "off"
    /\ compressed = NoCompressedFriProof
    /\ fri_query_indices = <<>>
    /\ fri_inferred_elements = <<>>
    /\ tampered = FALSE
    /\ first_key = -1
    /\ result = NoResult

Init ==
    /\ params \in ParamChoices
    /\ indices \in IndexSeqs(params)
    /\ proof \in { Defective(ProverProof(params, indices, v), d) :
                      v \in Variants(Len(indices)), d \in Defects }
    /\ pc = "start"
    /\ compressed = NoCompressedFriProof
    /\ fri_query_indices = <<>>
    /\ fri_inferred_elements = <<>>
    /\ tampered = FALSE
    /\ first_key = -1
    /\ result = NoResult
    /\ FieldOff

\* FriProof::compress(self, indices, params), with the inferred elements and
\* the challenges of the same proof.
Compress ==
    /\ pc = "start"
    /\ IF CompressPanics(proof, indices, params)
       THEN /\ pc' = "compress_panicked"
            /\ result' = DecompressPanic("compress")
            /\ UNCHANGED <<compressed, fri_query_indices, fri_inferred_elements>>
       ELSE /\ pc' = "compressed"
            /\ compressed' = compress(proof, indices, params)
            /\ fri_query_indices' = indices
            /\ fri_inferred_elements' =
                   InferredElements(proof, indices, params.reduction_arity_bits,
                                    1, 1, {}, <<>>)
            /\ UNCHANGED result
    /\ UNCHANGED <<params, indices, proof, tampered, first_key>>
    /\ UNCHANGED fieldVars

Received(C, inferred) ==
    /\ pc = "compressed"
    /\ ~tampered
    /\ tampered' = TRUE
    /\ compressed' = C
    /\ fri_inferred_elements' = inferred
    /\ UNCHANGED <<params, indices, proof, pc, fri_query_indices, first_key, result>>
    /\ UNCHANGED fieldVars

Without(map, key) == [k \in DOMAIN map \ {key} |-> map[k]]

\* What arrives lacks the entry of an index.
DropInitialProof ==
    \E key \in DOMAIN compressed.query_round_proofs.initial_trees_proofs :
        Received([compressed EXCEPT
                     !.query_round_proofs.initial_trees_proofs = Without(@, key)],
                 fri_inferred_elements)

\* What arrives lacks the entry of a post-shift key.
DropStep ==
    \E i \in 1..Len(compressed.query_round_proofs.steps) :
        \E key \in DOMAIN compressed.query_round_proofs.steps[i] :
            Received([compressed EXCEPT !.query_round_proofs.steps[i] = Without(@, key)],
                     fri_inferred_elements)

\* The inferred elements are fewer than the first sightings.
TruncateInferred ==
    \E n \in 0..(Len(fri_inferred_elements) - 1) :
        Received(compressed, SubSeq(fri_inferred_elements, 1, n))

\* An entry arrives with one oracle less, or one more.
ChangeOracles ==
    \E key \in DOMAIN compressed.query_round_proofs.initial_trees_proofs, more \in BOOLEAN :
        Received([compressed EXCEPT
                     !.query_round_proofs.initial_trees_proofs[key].evals_proofs =
                         IF more THEN Append(@, @[1]) ELSE DropLast(@)],
                 fri_inferred_elements)

\* An entry arrives under a key that no challenge index refers to.
InsertForeign ==
    \E key \in 0..(2 ^ HeightAfter(params, 0) - 1), n \in 1..NumOracles :
        /\ key \notin DOMAIN compressed.query_round_proofs.initial_trees_proofs
        /\ Received([compressed EXCEPT
                        !.query_round_proofs.initial_trees_proofs =
                            (key :> [evals_proofs |->
                                        SubSeq(QueryRound(params, key, 0)
                                                  .initial_trees_proof.evals_proofs, 1, n)])
                            @@ @],
                    fri_inferred_elements)

\* CompressedFriProof::decompress(self, challenges, fri_inferred_elements, params).
\* Which entry values().next() yields is the HashMap's choice.
Decompress ==
    /\ pc = "compressed"
    /\ pc' = "decompressed"
    /\ IF DOMAIN compressed.query_round_proofs.initial_trees_proofs = {}
       THEN /\ result' = DecompressPanic("values().next().unwrap()")
            /\ first_key' = -1
       ELSE \E first \in DOMAIN compressed.query_round_proofs.initial_trees_proofs :
               /\ first_key' = first
               /\ result' = decompress(compressed, fri_query_indices,
                                       fri_inferred_elements, params, first)
    /\ UNCHANGED <<params, indices, proof, compressed, fri_query_indices,
                   fri_inferred_elements, tampered>>
    /\ UNCHANGED fieldVars

Next ==
    \/ Compress
    \/ DropInitialProof \/ DropStep \/ TruncateInferred \/ ChangeOracles \/ InsertForeign
    \/ Decompress

Spec == Init /\ [][Next]_vars

(***************************************************************************)
(* The field operations on their own.                                      *)
(***************************************************************************)
FieldInit ==
    /\ overflow_checks \in BOOLEAN
    /\ x \in Samples
    /\ y \in Samples
    /\ fpc = "idle"
    /\ op = "-"
    /\ out = None
    /\ inv_u = ZERO /\ inv_v = ZERO /\ inv_b = ZERO /\ inv_c = ZERO
    /\ FriOff
FieldSpec == FieldInit /\ [][FieldNext]_vars

(***************************************************************************)
(* Properties                                                              *)
(***************************************************************************)
Rounds(P) == 1..Len(P.query_round_proofs)

\* The conditions on a FriProof: as many rounds as indices, one step per
\* reduction, 2^arity_bits[i] evaluations in a step of depth i, and the same
\* data wherever two rounds share an index or a post-shift key.
WellFormed(P, is, p) ==
    LET qrps == P.query_round_proofs
        R == Len(p.reduction_arity_bits)
    IN /\ Len(qrps) = Len(is)
       /\ \A k \in Rounds(P) : Len(qrps[k].steps) = R
       /\ \A k \in Rounds(P), i \in 1..R :
             Len(qrps[k].steps[i].evals) = 2 ^ p.reduction_arity_bits[i]
       /\ \A k1, k2 \in Rounds(P) :
             /\ is[k1] = is[k2] =>
                   qrps[k1].initial_trees_proof = qrps[k2].initial_trees_proof
             /\ \A i \in 1..R :
                   ShiftedIndex(is[k1], p.reduction_arity_bits, i)
                      = ShiftedIndex(is[k2], p.reduction_arity_bits, i)
                   => qrps[k1].steps[i] = qrps[k2].steps[i]

\* At least one round, and as many oracles in every round as in the first.
SameOracles(P) ==
    /\ P.query_round_proofs # <<>>
    /\ \A k \in Rounds(P) : OraclesOf(P.query_round_proofs[k]) = OraclesOf(P.query_round_proofs[1])

\* Path compression and decompression are an inverse pair on the Merkle
\* proofs of P: tree by tree, decompressing the compressed proofs gives the
\* proofs back.
InversePairOn(ls, is, ps, height, cap_height) ==
    decompress_merkle_proofs(ls, is, compress_merkle_proofs(cap_height, is, ps),
                             height, cap_height)
        = [ok |-> TRUE, proofs |-> ps]

MerkleInversePair(P, is, p) ==
    LET qrps == P.query_round_proofs
        n == Len(qrps)
    IN /\ \A t \in 1..NumOracles :
             (\A k \in 1..n : t <= OraclesOf(qrps[k])) =>
                InversePairOn([k \in 1..n |-> qrps[k].initial_trees_proof.evals_proofs[t][1]],
                              is,
                              [k \in 1..n |-> qrps[k].initial_trees_proof.evals_proofs[t][2]],
                              HeightAfter(p, 0), p.cap_height)
       /\ \A i \in 1..Len(p.reduction_arity_bits) :
             InversePairOn([k \in 1..n |-> flatten(qrps[k].steps[i].evals)],
                           [k \in 1..n |-> ShiftedIndex(is[k], p.reduction_arity_bits, i)],
                           [k \in 1..n |-> qrps[k].steps[i].merkle_proof],
                           HeightAfter(p, i), p.cap_height)

Untouched == pc \in {"compressed", "decompressed"} /\ ~tampered

\* C1, as stated: for every well-formed FriProof, with Merkle path
\* compression and decompression an inverse pair, compress succeeds and
\* decompressing its output with the same indices and the removed
\* evaluations gives the proof back.
C1_RoundTripEveryWellFormed ==
    (/\ pc \in {"decompressed", "compress_panicked"}
     /\ ~tampered
     /\ WellFormed(proof, indices, params)
     /\ MerkleInversePair(proof, indices, params))
    => (pc = "decompressed" /\ result.kind = "ok" /\ result.proof = proof)

\* C1, amended: the round trip of a well-formed FriProof that has at least
\* one query round and the same number of oracles in every round.
C1_RoundTrip ==
    (/\ pc = "decompressed"
     /\ ~tampered
     /\ WellFormed(proof, indices, params)
     /\ SameOracles(proof)
     /\ MerkleInversePair(proof, indices, params))
    => (result.kind = "ok" /\ result.proof = proof)

\* Two different indices of one coset, so that the second round reuses the
\* evaluations reconstructed for the first, and the proof came back.
C1_Witness ==
    /\ pc = "decompressed" /\ ~tampered
    /\ Len(indices) = 2 /\ indices[1] # indices[2]
    /\ params.reduction_arity_bits # <<>>
    /\ ShiftedIndex(indices[1], params.reduction_arity_bits, 1)
          = ShiftedIndex(indices[2], params.reduction_arity_bits, 1)
    /\ WellFormed(proof, indices, params)
    /\ SameOracles(proof)
    /\ MerkleInversePair(proof, indices, params)
    /\ fri_inferred_elements # <<>>
    /\ result.kind = "ok" /\ result.proof = proof

\* The residue modulo p of the integer a (any number of bytes).
ResidueModP(a) == Residue(a, ORDER)

Finished(name) == fpc = "done" /\ op = name

TwoTo48 == <<0, 0, 0, 0, 0, 0, 1, 0>>
TwoTo32 == <<0, 0, 0, 0, 1, 0, 0, 0>>
MaxU64 == <<255, 255, 255, 255, 255, 255, 255, 255>>

\* C2: the wrapped value that a * b returns is congruent to the product of
\* a and b modulo p.
C2_MulCongruent ==
    (Finished("mul") /\ ~overflow_checks)
    => (out.kind = "value"
        /\ to_canonical_u64(out.val) = ResidueModP(widening_mul(x, y)))

\* 2^48 * 2^48 = 2^96 = -1 (mod p), and the code returns 2^64 - 1 = 2^32 - 2.
C2_Fails ==
    /\ Finished("mul") /\ ~overflow_checks
    /\ x = TwoTo48 /\ y = TwoTo48
    /\ out.val = MaxU64
    /\ ResidueModP(widening_mul(x, y)) = NEG_ONE

\* The 65-bit sum of two u64.
Sum65(a, b) ==
    LET s == overflowing_add(a, b) IN Append(s.val, IF s.over THEN 1 ELSE 0)

\* C3: the value that a + b returns is congruent to a + b modulo p, for
\* canonical and for weakly reduced a and b.
C3_AddCongruent ==
    Finished("add")
    => (out.kind = "value" /\ to_canonical_u64(out.val) = ResidueModP(Sum65(x, y)))

\* (2^64 - 1) + (2^64 - 1) = 2^33 - 4 (mod p), and the code returns 2^32 - 3.
C3_Fails ==
    /\ Finished("add")
    /\ x = MaxU64 /\ y = MaxU64
    /\ out.val = <<253, 255, 255, 255, 0, 0, 0, 0>>
    /\ ResidueModP(Sum65(x, y)) = <<252, 255, 255, 255, 1, 0, 0, 0>>

\* C4: try_inverse of zero returns no value, and of a nonzero element a
\* value inv with a * inv == ONE.
C4_Inverse ==
    Finished("try_inverse")
    => IF is_zero(x) THEN out.kind = "none"
       ELSE /\ out.kind = "value"
            /\ Checked(mul(x, out.val)).kind = "value"
            /\ eq(mul(x, out.val).val, ONE)

\* In a build that checks for overflow, try_inverse(2^32) panics.
C4_Fails ==
    /\ Finished("try_inverse") /\ overflow_checks
    /\ x = TwoTo32
    /\ out.kind = "panic"

\* The cube of a computed without the code's reduction.
MathCube(a) == ResidueModP(widening_mul(ResidueModP(widening_mul(a, a)), a))

\* C5: the cube of cube_root(a) equals a, for every a.
C5_CubeRoot ==
    Finished("cube_root")
    => (out.kind = "value"
        /\ Checked(cube(out.val)).kind = "value"
        /\ eq(cube(out.val).val, x))

\* cube_root(5) cubed is not 5, with the code's multiplication or without.
C5_Fails ==
    /\ Finished("cube_root") /\ ~overflow_checks
    /\ x = MULTIPLICATIVE_GROUP_GENERATOR
    /\ out.kind = "value"
    /\ ~eq(cube(out.val).val, x)
    /\ MathCube(out.val) # to_canonical_u64(x)

\* C6: no field operation fails, except that the inverse of zero is no value.
C6_NoFailure ==
    fpc = "done"
    => IF op = "try_inverse" /\ is_zero(x) THEN out.kind = "none"
       ELSE out.kind = "value"

\* In a build that checks for overflow, 2^48 * 2^48 panics in reduce128.
C6_Fails ==
    /\ Finished("mul") /\ overflow_checks
    /\ x = TwoTo48 /\ y = TwoTo48
    /\ out.kind = "panic"
    /\ reduce128(widening_mul(x, y)).overflow

\* The values a GoldilocksField holds: the operands, as from_canonical_u64
\* stores them, and the value an operation returned.
StoredValues ==
    {from_canonical_u64(x), from_canonical_u64(y)}
        \cup (IF out.kind = "value" THEN {out.val} ELSE {})

\* C7: to_canonical_u64 of every stored value is below p and congruent to
\* the value modulo p.
C7_Canonical ==
    \A v \in StoredValues :
        /\ Less(to_canonical_u64(v), ORDER)
        /\ to_canonical_u64(v) = ResidueModP(v)

\* from_canonical_u64(0xFFFFFFFFFFFFFFFF).to_canonical_u64() = 0xFFFFFFFE.
C7_Witness ==
    /\ Finished("to_canonical_u64")
    /\ x = MaxU64
    /\ out = Value(<<254, 255, 255, 255, 0, 0, 0, 0>>)

InitialKeys == DOMAIN compressed.query_round_proofs.initial_trees_proofs

\* C8: whichever entry of initial_trees_proofs the map yields first,
\* decompress succeeds or fails alike and returns the same FriProof.
C8_OrderIndependent ==
    pc = "decompressed"
    => \A k \in InitialKeys :
          LET r == decompress(compressed, fri_query_indices, fri_inferred_elements,
                              params, k)
          IN r.kind = result.kind /\ r.proof = result.proof

\* decompress succeeded, and fails when the map yields another entry first.
C8_Fails ==
    /\ pc = "decompressed"
    /\ result.kind = "ok"
    /\ \E k \in InitialKeys :
          decompress(compressed, fri_query_indices, fri_inferred_elements,
                     params, k).kind = "panic"

\* The number of first sightings of a (depth, post-shift key).
FirstSightings(is, arity_bits) ==
    Cardinality({ <<i, ShiftedIndex(is[k], arity_bits, i)>> :
                     k \in 1..Len(is), i \in 1..Len(arity_bits) })

FewInferred == Len(fri_inferred_elements)
                  < FirstSightings(fri_query_indices, params.reduction_arity_bits)

MissingKey ==
    LET qrp == compressed.query_round_proofs
    IN \E k \in 1..Len(fri_query_indices) :
          \/ fri_query_indices[k] \notin DOMAIN qrp.initial_trees_proofs
          \/ \E i \in 1..Len(params.reduction_arity_bits) :
                ShiftedIndex(fri_query_indices[k], params.reduction_arity_bits, i)
                   \notin DOMAIN qrp.steps[i]

OraclesDisagree ==
    LET m == compressed.query_round_proofs.initial_trees_proofs
    IN \E k1, k2 \in 1..Len(fri_query_indices) :
          /\ fri_query_indices[k1] \in DOMAIN m
          /\ fri_query_indices[k2] \in DOMAIN m
          /\ Len(m[fri_query_indices[k1]].evals_proofs)
                # Len(m[fri_query_indices[k2]].evals_proofs)

Malformed == FewInferred \/ MissingKey \/ OraclesDisagree

RECURSIVE SumBits(_, _)
SumBits(arity_bits, j) == IF j = 0 THEN 0 ELSE SumBits(arity_bits, j - 1) + arity_bits[j]

\* C10: the keys of initial_trees_proofs are the distinct indices, and the
\* keys of steps[j] the indices shifted right by the arity bits up to j.
C10_KeySets ==
    Untouched
    => LET qrp == compressed.query_round_proofs
       IN /\ DOMAIN qrp.initial_trees_proofs = { indices[k] : k \in 1..Len(indices) }
          /\ Len(qrp.steps) = Len(params.reduction_arity_bits)
          /\ \A j \in 1..Len(params.reduction_arity_bits) :
                DOMAIN qrp.steps[j]
                   = { indices[k] \div (2 ^ SumBits(params.reduction_arity_bits, j)) :
                          k \in 1..Len(indices) }

\* indices = [7, 7]: one entry under 7, one entry in each steps[j].
C10_Witness ==
    /\ pc = "compressed" /\ ~tampered
    /\ indices = <<7, 7>>
    /\ params.reduction_arity_bits = <<2, 1>>
    /\ DOMAIN compressed.query_round_proofs.initial_trees_proofs = {7}
    /\ DOMAIN compressed.query_round_proofs.steps[1] = {1}
    /\ DOMAIN compressed.query_round_proofs.steps[2] = {0}

\* Every step of every round has the 2^arity_bits[i] evaluations of its coset.
FullSteps(P, p) ==
    \A k \in Rounds(P) :
        /\ Len(P.query_round_proofs[k].steps) = Len(p.reduction_arity_bits)
        /\ \A i \in 1..Len(p.reduction_arity_bits) :
              Len(P.query_round_proofs[k].steps[i].evals) = 2 ^ p.reduction_arity_bits[i]

\* The sequence s without its element at the 0-based position pos.
AllBut(s, pos) == [c \in 1..(Len(s) - 1) |-> IF c <= pos THEN s[c] ELSE s[c + 1]]

\* The index of round k before the shift of depth i, and its position in the
\* coset of depth i.
PreShift(k, i) == indices[k] \div (2 ^ SumBits(params.reduction_arity_bits, i - 1))
PositionInCoset(k, i) == PreShift(k, i) % (2 ^ params.reduction_arity_bits[i])

\* C11: where every step of the input has 2^arity_bits[i] evals, an entry of
\* steps[i] has 2^arity_bits[i] - 1 evals: the evals of a round with that
\* key, in their order, without the one at (pre-shift index mod 2^arity_bits[i]).
C11_StepLength ==
    (Untouched /\ FullSteps(proof, params))
    => \A i \in 1..Len(params.reduction_arity_bits) :
          \A key \in DOMAIN compressed.query_round_proofs.steps[i] :
             LET entry == compressed.query_round_proofs.steps[i][key]
             IN /\ Len(entry.evals) = 2 ^ params.reduction_arity_bits[i] - 1
                /\ \E k \in 1..Len(indices) :
                      /\ PreShift(k, i + 1) = key
                      /\ entry.evals
                            = AllBut(proof.query_round_proofs[k].steps[i].evals,
                                     PositionInCoset(k, i))

\* indices = [0b011] with arity_bits = [2, ..]: a step of 4 evals is stored
\* under key 0 with the 3 evals other than the last.
C11_Witness ==
    /\ pc = "compressed" /\ ~tampered
    /\ indices = <<3>>
    /\ params.reduction_arity_bits # <<>>
    /\ params.reduction_arity_bits[1] = 2
    /\ FullSteps(proof, params)
    /\ Len(proof.query_round_proofs[1].steps[1].evals) = 4
    /\ compressed.query_round_proofs.steps[1][0].evals
          = SubSeq(proof.query_round_proofs[1].steps[1].evals, 1, 3)

ChallengeKey(k, j) ==
    fri_query_indices[k] \div (2 ^ SumBits(params.reduction_arity_bits, j))

\* C12: on success decompress returns as many rounds as there are challenge
\* indices, and round k holds the leaves of initial_trees_proofs[indices[k]]
\* and, at depth j, the evals of steps[j][indices[k] >> (arity_bits[0] + ... +
\* arity_bits[j])] with one element put back.
C12_QueryOrder ==
    (pc = "decompressed" /\ result.kind = "ok")
    => LET qrp == compressed.query_round_proofs
           rounds == result.proof.query_round_proofs
       IN /\ Len(rounds) = Len(fri_query_indices)
          /\ \A k \in 1..Len(fri_query_indices) :
                LET entry == qrp.initial_trees_proofs[fri_query_indices[k]]
                    round == rounds[k]
                IN /\ Len(round.initial_trees_proof.evals_proofs) = Len(entry.evals_proofs)
                   /\ \A t \in 1..Len(entry.evals_proofs) :
                         round.initial_trees_proof.evals_proofs[t][1]
                            = entry.evals_proofs[t][1]
                   /\ Len(round.steps) = Len(params.reduction_arity_bits)
                   /\ \A j \in 1..Len(params.reduction_arity_bits) :
                         \E pos \in 0..(Len(round.steps[j].evals) - 1) :
                            AllBut(round.steps[j].evals, pos)
                               = qrp.steps[j][ChallengeKey(k, j)].evals

\* Two rounds in descending order of index.
C12_Witness ==
    /\ pc = "decompressed" /\ result.kind = "ok"
    /\ params.reduction_arity_bits = <<1, 1>>
    /\ fri_query_indices = <<6, 1>>
    /\ Len(result.proof.query_round_proofs) = 2
    /\ result.proof.query_round_proofs[1].initial_trees_proof.evals_proofs[1][1]
          = LeafData(1, fri_query_indices[1], 0)
    /\ result.proof.query_round_proofs[2].initial_trees_proof.evals_proofs[1][1]
          = compressed.query_round_proofs.initial_trees_proofs[fri_query_indices[2]]
               .evals_proofs[1][1]

\* The invariants of the data model: as many rounds as indices, in every
\* round one step per reduction and as many oracles as in the other rounds,
\* in every step of depth i 2^arity_bits[i] evals.
DataModel(P, is, p) ==
    /\ Len(P.query_round_proofs) = Len(is)
    /\ FullSteps(P, p)
    /\ \A k1, k2 \in Rounds(P) :
          OraclesOf(P.query_round_proofs[k1]) = OraclesOf(P.query_round_proofs[k2])

Compressing == pc \in {"compressed", "compress_panicked"} /\ ~tampered

\* C13, as stated: on every input that satisfies the invariants of the data
\* model compress returns a CompressedFriProof.
C13_CompressTotalEveryInput ==
    (Compressing /\ DataModel(proof, indices, params)) => pc = "compressed"

\* C13, amended: on every input that satisfies the invariants of the data
\* model and has at least one query round compress returns a
\* CompressedFriProof.
C13_CompressTotal ==
    (Compressing /\ DataModel(proof, indices, params) /\ indices # <<>>)
    => pc = "compressed"

\* Two rounds of two reductions each were compressed.
C13_Witness ==
    /\ pc = "compressed" /\ ~tampered
    /\ DataModel(proof, indices, params)
    /\ indices = <<7, 2>>
    /\ params.reduction_arity_bits = <<2, 1>>
    /\ compressed.query_round_proofs.indices = indices


\* The heights a successful decompress handed to decompress_merkle_proofs:
\* first the one of the initial-tree oracles, then one per reduction depth.
HeightsPassed == result.heights

Decompressed == pc = "decompressed" /\ result.kind = "ok"

\* C14, as stated: with h_0 = degree_bits + rate_bits and
\* h_{i+1} = h_i - arity_bits[i], the step proofs of reduction depth i
\* (counted from 0, as arity_bits is) are decompressed with height h_i, and
\* the proofs of every initial-tree oracle with h_0.
C14_HeightIsBeforeReduction ==
    Decompressed =>
        /\ HeightsPassed[1] = params.degree_bits + params.rate_bits
        /\ \A i \in 0..(Len(params.reduction_arity_bits) - 1) :
              HeightsPassed[i + 2] =
                  params.degree_bits + params.rate_bits
                      - SumBits(params.reduction_arity_bits, i)

\* C14, amended: the step proofs of reduction depth i (counted from 0) are
\* decompressed with height h_{i+1} = h_0 - (arity_bits[0] + ... +
\* arity_bits[i]), the height after the reduction of that depth; the proofs
\* of every initial-tree oracle with h_0.
C14_Heights ==
    Decompressed =>
        /\ Len(HeightsPassed) = 1 + Len(params.reduction_arity_bits)
        /\ HeightsPassed[1] = params.degree_bits + params.rate_bits
        /\ \A i \in 0..(Len(params.reduction_arity_bits) - 1) :
              HeightsPassed[i + 2] =
                  params.degree_bits + params.rate_bits
                      - SumBits(params.reduction_arity_bits, i + 1)

\* A proof with two reductions of different arity was decompressed.
C14_Witness ==
    /\ Decompressed /\ ~tampered
    /\ params.reduction_arity_bits = <<2, 1>>
    /\ HeightsPassed = <<3, 1, 0>>
    /\ result.proof = proof


\* The earliest of a non-empty set of positions.
Earliest(S) == CHOOSE k \in S : \A k2 \in S : k <= k2

\* The compressed Merkle proofs of oracle t and of reduction depth j, one
\* slot per position of indices.
InitialSlots(t) ==
    compress_merkle_proofs(params.cap_height, indices,
        [k \in 1..Len(indices) |->
            proof.query_round_proofs[k].initial_trees_proof.evals_proofs[t][2]])

StepSlots(j) ==
    compress_merkle_proofs(params.cap_height,
        [k \in 1..Len(indices) |-> PreShift(k, j + 1)],
        [k \in 1..Len(indices) |-> proof.query_round_proofs[k].steps[j].merkle_proof])

\* C15: the record stored under a key of initial_trees_proofs or of steps[j]
\* is the one of the earliest position of indices with that key: its leaves,
\* its evals without the one at its own position in the coset, and the
\* compressed Merkle proof of its slot.
C15_FirstWriterWins ==
    Untouched
    => LET qrp == compressed.query_round_proofs
           rounds == proof.query_round_proofs
       IN /\ \A key \in DOMAIN qrp.initial_trees_proofs :
                LET k == Earliest({ k1 \in 1..Len(indices) : indices[k1] = key })
                    entry == qrp.initial_trees_proofs[key]
                IN /\ Len(entry.evals_proofs) = OraclesOf(rounds[1])
                   /\ \A t \in 1..Len(entry.evals_proofs) :
                         /\ entry.evals_proofs[t][1]
                               = rounds[k].initial_trees_proof.evals_proofs[t][1]
                         /\ entry.evals_proofs[t][2] = InitialSlots(t)[k]
          /\ \A j \in 1..Len(params.reduction_arity_bits) :
                \A key \in DOMAIN qrp.steps[j] :
                   LET k == Earliest({ k1 \in 1..Len(indices) : PreShift(k1, j + 1) = key })
                       entry == qrp.steps[j][key]
                   IN /\ entry.evals
                            = AllBut(rounds[k].steps[j].evals, PositionInCoset(k, j))
                      /\ entry.merkle_proof = StepSlots(j)[k]

\* indices = [5, 4] share the key 2 of steps[0]; the entry has the evals of
\* the first round without its position 1, not those of the second round
\* without its position 0, and the Merkle proof of the first slot.
C15_Witness ==
    /\ pc = "compressed" /\ ~tampered
    /\ indices = <<5, 4>>
    /\ params.reduction_arity_bits # <<>>
    /\ params.reduction_arity_bits[1] = 1
    /\ LET entry == compressed.query_round_proofs.steps[1][2]
           rounds == proof.query_round_proofs
       IN /\ entry.evals = AllBut(rounds[1].steps[1].evals, 1)
          /\ entry.evals # AllBut(rounds[2].steps[1].evals, 0)
          /\ entry.merkle_proof = StepSlots(1)[1]
          /\ entry.merkle_proof # StepSlots(1)[2]


\* The position of challenge k in its coset of depth j (the pre-shift index
\* mod 2^arity_bits[j]).
ChallengePosition(k, j) ==
    ChallengeKey(k, j - 1) % (2 ^ params.reduction_arity_bits[j])

\* The (depth, post-shift key) pairs sighted before challenge k reaches depth
\* j, iterating the indices in order and the depths inside each index.
SightedBefore(k, j) ==
    { <<i, ChallengeKey(k1, i)>> :
         <<k1, i>> \in { ki \in (1..k) \X (1..Len(params.reduction_arity_bits)) :
                            ki[1] < k \/ ki[2] < j } }

\* C16: decompress takes one element from the inferred stream at the first
\* sighting of each (depth, post-shift key), in the order of the sightings,
\* and inserts it at the pre-shift index mod 2^arity_bits[i] of that step's
\* evals; a later sighting takes none and has the evals rebuilt at the first
\* sighting; the number of elements taken is the number of distinct
\* (depth, key) pairs.
C16_InferredConsumption ==
    Decompressed
    => LET qrp == compressed.query_round_proofs
           rounds == result.proof.query_round_proofs
       IN /\ result.used
                = FirstSightings(fri_query_indices, params.reduction_arity_bits)
          /\ \A k \in 1..Len(fri_query_indices) :
                \A j \in 1..Len(params.reduction_arity_bits) :
                   LET key == ChallengeKey(k, j)
                       first == Earliest({ k1 \in 1..k : ChallengeKey(k1, j) = key })
                       taken == Cardinality(SightedBefore(k, j))
                   IN IF first = k
                      THEN /\ <<j, key>> \notin SightedBefore(k, j)
                           /\ rounds[k].steps[j].evals
                                 = InsertAt(qrp.steps[j][key].evals,
                                            ChallengePosition(k, j) + 1,
                                            fri_inferred_elements[taken + 1])
                      ELSE /\ <<j, key>> \in SightedBefore(k, j)
                           /\ rounds[k].steps[j].evals = rounds[first].steps[j].evals

\* Challenges [5, 4] with arity_bits [1, 1] share their keys at both depths:
\* two elements are taken, both for the first challenge, and the second
\* challenge has the evals of the first.
C16_Witness ==
    /\ Decompressed
    /\ fri_query_indices = <<5, 4>>
    /\ params.reduction_arity_bits = <<1, 1>>
    /\ result.used = 2
    /\ Len(fri_inferred_elements) = 2
    /\ fri_inferred_elements[1] # fri_inferred_elements[2]
    /\ result.proof.query_round_proofs[1].steps[2].evals[1] = fri_inferred_elements[2]
    /\ result.proof.query_round_proofs[2].steps[1].evals
          = result.proof.query_round_proofs[1].steps[1].evals


\* The fields that compress and decompress hand on as they are.
PassThrough(P) ==
    <<P.commit_phase_merkle_caps, P.final_poly, P.pow_witness>>

\* C17: compress returns the caps, final_poly and pow_witness of its input
\* and, as query_round_proofs.indices, the indices in their order with their
\* duplicates; decompress returns the caps, final_poly and pow_witness of the
\* compressed proof it was given.
C17_PassThrough ==
    /\ (pc = "compressed" /\ ~tampered)
       => /\ PassThrough(compressed) = PassThrough(proof)
          /\ compressed.query_round_proofs.indices = indices
    /\ Decompressed
       => PassThrough(result.proof) = PassThrough(compressed)

\* A proof with a repeated index went through compress and decompress.
C17_Witness ==
    /\ Decompressed
    /\ indices = <<3, 3>>
    /\ compressed.query_round_proofs.indices = <<3, 3>>
    /\ PassThrough(result.proof) = PassThrough(proof)
    /\ proof.final_poly # <<>>
    /\ proof.commit_phase_merkle_caps # <<>>
    /\ proof.pow_witness # 0


\* C18: what is observed of a field element depends on its canonical value
\* alone: x == y is the equality of the residues, hashing x writes the
\* residue of x, and printing x with Display or Debug prints the residue of x
\* (so x and x + p compare equal, hash identically and print the same number).
C18_ObservableCanonical ==
    /\ Finished("eq") => (out = Bool(ResidueModP(x) = ResidueModP(y)))
    /\ Finished("hash") => (out = Written(ResidueModP(x)))
    /\ Finished("Display::fmt") => (out = Printed(u64_fmt(ResidueModP(x))))
    /\ Finished("Debug::fmt") => (out = Printed(u64_fmt(ResidueModP(x))))

\* GoldilocksField(p) equals GoldilocksField(0) and hashes like it, and is
\* printed as 18446744069414584321 where GoldilocksField(0) is printed as 0.
C18_Fails ==
    /\ Finished("Display::fmt")
    /\ x = ORDER /\ y = ZERO
    /\ eq(x, y)
    /\ Hash(x) = Hash(y)
    /\ out = Printed(<<1, 8, 4, 4, 6, 7, 4, 4, 0, 6, 9, 4, 1, 4, 5, 8, 4, 3, 2, 1>>)
    /\ Display(y) = <<0>>
    /\ Debug(x) # Debug(y)


\* a * b is congruent to c modulo p.
ProductCongruent(a, b, c) == ResidueModP(widening_mul(a, b)) = ResidueModP(c)

InLoop == fpc = "loop"

\* The loop of try_inverse has exited with u == 1 or v == 1, and what
\* try_inverse returns, where its last assertion lets it return, is b if
\* u == 1 and c otherwise.
ExitOfLoop ==
    (Finished("try_inverse") /\ ~is_zero(x))
    => /\ inv_u = ONE \/ inv_v = ONE
       /\ out.kind = "value" => out.val = (IF inv_u = ONE THEN inv_b ELSE inv_c)

\* C19, as stated: for every nonzero x, at the entry of the loop of
\* try_inverse and after each of its iterations u * x = b and v * x = -c
\* modulo p, with b and c in [0, p); the loop exits with u == 1 or v == 1 and
\* b is returned if u == 1, else c.
C19_InvariantAsStated ==
    /\ InLoop
       => /\ ProductCongruent(inv_u, x, inv_b)
          /\ ProductCongruent(inv_v, x, overflowing_sub(ORDER, inv_c).val)
          /\ Less(inv_b, ORDER) /\ Less(inv_c, ORDER)
    /\ ExitOfLoop

\* C19, amended: for every nonzero x, at the entry of the loop of try_inverse
\* and after each of its iterations b * x = u and c * x = v modulo p, with b
\* and c in [0, p); the loop exits with u == 1 or v == 1 and b is returned if
\* u == 1, else c.
C19_LoopInvariant ==
    /\ InLoop
       => /\ ProductCongruent(inv_b, x, inv_u)
          /\ ProductCongruent(inv_c, x, inv_v)
          /\ Less(inv_b, ORDER) /\ Less(inv_c, ORDER)
    /\ ExitOfLoop

\* try_inverse of 3 has gone through its loop and returned.
C19_Witness ==
    /\ Finished("try_inverse")
    /\ x = <<3, 0, 0, 0, 0, 0, 0, 0>>
    /\ out.kind = "value"
    /\ out.val = (IF inv_u = ONE THEN inv_b ELSE inv_c)
    /\ inv_b # ONE /\ inv_c # ZERO
    /\ ProductCongruent(out.val, x, ONE)

====
